---------------------------- MODULE Spec2Model ----------------------------
(***************************************************************************)
(* Model of the jobscout-ai ingest connectors.                             *)
(*                                                                         *)
(*   PlaywrightConnector.fetch       connectors/PlaywrightBase.py          *)
(*   GoogleCareersConnector.scrape   sites/Google.py                       *)
(*   GreenhouseConnector.fetch       connectors/Greenhouse.py              *)
(*   get_connectors                  registry.py                           *)
(*   call_connectors                 pipeline/index.py                     *)
(*                                                                         *)
(* Spec         one GoogleCareersConnector instance, fetch() called over   *)
(*              and over against a page chosen by the environment.         *)
(* FairSpec     Spec with the single Python thread never stopping.         *)
(* SpecGH       one GreenhouseConnector instance, fetch() against a        *)
(*              response chosen by the environment.                        *)
(* SpecX        lines 73-98 of scrape on one card with an arbitrary text.  *)
(* SpecTwice    fetch() called twice on one GoogleCareersConnector against *)
(*              a page whose answers are fixed in advance.                 *)
(* SpecD        call_connectors over the registry's two connectors.        *)
(* SpecPG       the discrete-pagination session of the design document,    *)
(* FairSpecPG   which has no counterpart in the source files above.        *)
(*                                                                         *)
(* Strings whose content the code inspects (card text) are sequences of    *)
(* one-character strings; URLs are records [host, path].                   *)
(***************************************************************************)
EXTENDS Integers, Sequences, FiniteSets, TLC

VARIABLES
    pc,              \* position of the running fetch()/scrape() call
    query,           \* self.query of the Google connector (frozen dataclass)
    playwright,      \* the sync_playwright() scope: "stopped" | "running"
    browser,         \* the browser handle: "none" | "open" | "closed"
    clicked,         \* consent buttons clicked on the page during this scrape
    results,         \* scrape local: results
    seen_urls,       \* scrape local: seen_urls
    stagnant_rounds, \* scrape local: stagnant_rounds
    last_count,      \* scrape local: last_count
    cards,           \* cards of the current round the for loop has not visited yet
    jobs,            \* fetch local: jobs, the value scrape returned
    exc,             \* the call that raised, "none" when no exception is in flight
    returned,        \* what the caller of fetch() received
    firstSeen,       \* history: URLs in the order the page first presented them
    roundStart,      \* history: len(results) when the current round began
    onlyEmpty,       \* history: the current round showed cards, none with an href
    gh_pc,           \* position of the running GreenhouseConnector.fetch()
    gh_query,        \* self.query of the Greenhouse connector
    gh_resp,         \* the response requests.get produced
    gh_requests,     \* requests sent by the running fetch()
    gh_jobs,         \* fetch local: the elements of jobs not mapped yet
    gh_out,          \* fetch local: out
    gh_returned,     \* what the caller of fetch() received
    x_pc,            \* extraction of one card: "ready" | "done"
    x_card,          \* the card (href and inner text) being extracted
    x_rec,           \* the dictionary built from it
    \* the discrete-pagination session (strategy A of the design)
    pg_pc,           \* position in the session
    pg_cfg,          \* [max_results, max_pages]
    pg_page,         \* the elements visible on the current page
    pg_cards,        \* those not yet extracted
    pg_results,      \* accumulated records
    pg_seen,         \* seen-set
    pg_pages,        \* pages_visited
    pg_marker,       \* pre-click marker
    pg_stop,         \* the terminal condition that ended the loop
    pg_returned,     \* what the session returned
    pg_page1,        \* history: the results after page 1 was extracted
    \* two fetch() calls of one connector against one page behaviour
    s_page,          \* what the page shows at the 1st, 2nd, ... query of a session
    s_shown,         \* queries answered in the current session
    s_calls,         \* fetch() calls made
    s_first,         \* outcome of the first call
    \* call_connectors (pipeline/index.py)
    d_pc,            \* position in call_connectors
    d_i,             \* connectors of the registry whose fetch() was invoked
    d_fetched,       \* history: board tokens in the order fetch() was invoked
    d_jobs,          \* records of the current connector not yet printed
    d_produced,      \* history: every record a fetch() returned
    d_consumed,      \* history: every record the inner loop printed
    d_exc            \* where call_connectors was aborted

gvars == <<pc, query, playwright, browser, clicked, results, seen_urls,
           stagnant_rounds, last_count, cards, jobs, exc, returned, firstSeen,
           roundStart, onlyEmpty>>
ghvars == <<gh_pc, gh_query, gh_resp, gh_requests, gh_jobs, gh_out, gh_returned>>
xvars == <<x_pc, x_card, x_rec>>
pgvars == <<pg_pc, pg_cfg, pg_page, pg_cards, pg_results, pg_seen, pg_pages,
            pg_marker, pg_stop, pg_returned, pg_page1>>
svars == <<s_page, s_shown, s_calls, s_first>>
dvars == <<d_pc, d_i, d_fetched, d_jobs, d_produced, d_consumed, d_exc>>
vars == <<gvars, ghvars, xvars, pgvars, svars, dvars>>

\* everything but the state of the Google connector, of the Greenhouse
\* connector, of the extraction of one card
others == <<ghvars, xvars, pgvars, dvars>>
notG == <<others, svars>>
notD == <<gvars, xvars, pgvars, svars>>
notGH == <<notD, dvars>>
notX == <<gvars, ghvars, pgvars, svars, dvars>>
notPG == <<gvars, ghvars, xvars, svars, dvars>>

----------------------------------------------------------------------------
(* Bounds *)

MaxCards == 2           \* cards in one query_selector_all result
MaxMaxResults == 3      \* largest configured max_results
MaxJobs == 2            \* elements in the jobs list of a Greenhouse body
MaxTextLen == 7         \* characters in the inner text of an extracted card
MaxPages == 2           \* largest configured max_pages
MaxScript == 3          \* queries after which the scripted page stops changing

(* Program constants *)

STAGNATION_LIMIT == 6

----------------------------------------------------------------------------
(* Generic helpers *)

Min(a, b) == IF a < b THEN a ELSE b
Max(a, b) == IF a > b THEN a ELSE b

Range(s) == {s[i] : i \in 1..Len(s)}

SeqsUpTo(S, n) == UNION {[1..k -> S] : k \in 0..n}

IsPrefix(s, t) == Len(s) <= Len(t) /\ SubSeq(t, 1, Len(s)) = s

\* Python s[:n]
Slice(s, n) ==
    IF n >= 0 THEN SubSeq(s, 1, Min(n, Len(s)))
    ELSE SubSeq(s, 1, Max(Len(s) + n, 0))

----------------------------------------------------------------------------
(* Strings: str.strip, str.split("\n"), written without recursion *)

NL == "\n"
Whitespace == {" ", NL}

\* s.lstrip(), s.rstrip(), s.strip()
LStrip(s) ==
    LET lead == {i \in 0..Len(s) : \A j \in 1..i : s[j] \in Whitespace}
        k == CHOOSE i \in lead : \A j \in lead : j <= i
    IN SubSeq(s, k + 1, Len(s))

RStrip(s) ==
    LET trail == {i \in 0..Len(s) : \A j \in (Len(s) - i + 1)..Len(s) : s[j] \in Whitespace}
        k == CHOOSE i \in trail : \A j \in trail : j <= i
    IN SubSeq(s, 1, Len(s) - k)

Strip(s) == LStrip(RStrip(s))

\* s.split("\n"): piece k lies between the (k-1)-th and the k-th newline
SplitLines(s) ==
    LET nls == {i \in 1..Len(s) : s[i] = NL}
        nth(k) == IF k = 0 THEN 0
                  ELSE IF k > Cardinality(nls) THEN Len(s) + 1
                  ELSE CHOOSE i \in nls : Cardinality({j \in nls : j < i}) = k - 1
    IN [k \in 1..(Cardinality(nls) + 1) |-> SubSeq(s, nth(k - 1) + 1, nth(k) - 1)]

NonEmpty(ln) == ln # <<>>

\* mutant: empty lines are kept
Lines_keep_empty(raw_text) ==
    LET pieces == SplitLines(raw_text)
    IN [k \in 1..Len(pieces) |-> Strip(pieces[k])]

\* [ln.strip() for ln in raw_text.split("\n") if ln.strip()]
Lines(raw_text) ==
    LET pieces == SplitLines(raw_text)
    IN SelectSeq([k \in 1..Len(pieces) |-> Strip(pieces[k])], NonEmpty)

_guess_title(raw_text) ==
    LET lines == Lines(raw_text) IN IF Len(lines) >= 1 THEN lines[1] ELSE <<>>

_guess_location(raw_text) ==
    LET lines == Lines(raw_text) IN IF Len(lines) >= 2 THEN lines[2] ELSE <<>>

_guess_team(raw_text) ==
    LET lines == Lines(raw_text) IN IF Len(lines) >= 3 THEN lines[3] ELSE <<>>

----------------------------------------------------------------------------
(* The page: hrefs, card texts, cards *)

GOOGLE == "careers.google.com"

NoneHref == [kind |-> "none", host |-> "", path |-> ""]     \* attribute absent
EmptyHref == [kind |-> "empty", host |-> "", path |-> ""]   \* href=""

RelHref(path) == [kind |-> "rel", host |-> "", path |-> path]
AbsHref(host, path) == [kind |-> "abs", host |-> host, path |-> path]

\* the cards a page can show: two of them lead to the same posting, one by a
\* relative and one by an absolute href, with different card text
Cards ==
    {[href |-> NoneHref, text |-> <<"A", NL, " ", "B">>],
     [href |-> EmptyHref, text |-> <<" ", "C">>],
     [href |-> RelHref("/jobs/results/1"), text |-> <<"A", NL, " ", "B">>],
     [href |-> AbsHref(GOOGLE, "/jobs/results/1"), text |-> <<" ", "C">>],
     [href |-> AbsHref(GOOGLE, "/jobs/results/2"), text |-> <<"A", NL, " ", "B">>],
     [href |-> AbsHref("www.google.com", "/jobs/results/1"), text |-> <<" ", "C", NL>>]}

CardLists == SeqsUpTo(Cards, MaxCards)

MaxResultsValues == (0 - 1)..MaxMaxResults

Labels == <<"Accept all", "I agree", "Accept">>

----------------------------------------------------------------------------
(* GoogleCareersConnector.scrape, the pure parts *)

\* mutant: only a missing attribute is skipped, href="" is not
Falsy_none(href) == href.kind = "none"

\* `if not href`, line 74
Falsy(href) == href.kind \in {"none", "empty"}

\* href.startswith("http")
StartsWithHttp(href) == href.kind = "abs"

\* urljoin("https://careers.google.com", href)
urljoin(href) == [host |-> GOOGLE, path |-> href.path]

full_url(href) ==
    IF StartsWithHttp(href) THEN [host |-> href.host, path |-> href.path]
    ELSE urljoin(href)

\* the dictionary appended for a card
Record(a) ==
    LET raw_text == Strip(a.text) IN
    [source |-> "google-careers",
     source_url |-> full_url(a.href),
     title |-> _guess_title(raw_text),
     location |-> _guess_location(raw_text),
     team |-> _guess_team(raw_text),
     raw_text |-> raw_text]

\* Record, tabulated once over the cards of the model
RecordTable == {<<a, Record(a)>> : a \in Cards}
RecordOf(a) == (CHOOSE p \in RecordTable : p[1] = a)[2]

\* mutant: the limit read one too high
query_max_results_off == query.max_results + 1

\* self.query.max_results
query_max_results == query.max_results

\* mutant: the URL is not remembered
set_add_noop(set, x) == set

\* seen_urls.add(full_url), line 88
set_add(set, x) == set \cup {x}

\* mutant: the record is put in front
list_append_front(l, rec) == <<rec>> \o l

\* results.append(rec)
list_append(l, rec) == Append(l, rec)

\* mutant: the seen-set is not consulted
Skipped_unseen(a, seen) == Falsy(a.href)

\* the two `continue` tests of the for loop
Skipped(a, seen) == Falsy(a.href) \/ full_url(a.href) \in seen

\* mutant: the stagnation test lets one more round through
LoopCond_le(n, max_results, stagnant) ==
    n < max_results /\ stagnant <= STAGNATION_LIMIT

\* while condition
LoopCond(n, max_results, stagnant) ==
    n < max_results /\ stagnant < STAGNATION_LIMIT

\* mutant: extraction goes on after the target is reached
Break_never(n, max_results) == FALSE

\* `if len(results) >= self.query.max_results: break`, lines 100-101
Break(n, max_results) == n >= max_results

\* mutant: a round without growth is not counted
NextStagnant_stuck(n, last, stagnant) == IF n = last THEN stagnant ELSE 0

\* mutant: a productive round does not restart the count
NextStagnant_noreset(n, last, stagnant) == IF n = last THEN stagnant + 1 ELSE stagnant

\* progress detection
NextStagnant(n, last, stagnant) == IF n = last THEN stagnant + 1 ELSE 0

\* mutant: the new count is not recorded
NextLastCount_stale(n, last) == last

\* last_count after progress detection
NextLastCount(n, last) == IF n = last THEN last ELSE n

\* mutant: the slice is one short
ScrapeResult_short(res, max_results) == Slice(res, max_results - 1)

\* return value
ScrapeResult(res, max_results) == Slice(res, max_results)

\* history: the URLs of a card list, appended in list order when new
RECURSIVE Observe(_, _)
Observe(order, cs) ==
    IF cs = <<>> THEN order
    ELSE LET a == Head(cs) IN
         IF Falsy(a.href) \/ full_url(a.href) \in Range(order)
         THEN Observe(order, Tail(cs))
         ELSE Observe(Append(order, full_url(a.href)), Tail(cs))

----------------------------------------------------------------------------
(* PlaywrightConnector.fetch and GoogleCareersConnector.scrape *)

XOff ==
    /\ x_pc = "off"
    /\ x_card = [href |-> NoneHref, text |-> <<>>]
    /\ x_rec = <<>>

DOff ==
    /\ d_pc = "off"
    /\ d_i = 0
    /\ d_fetched = <<>>
    /\ d_jobs = <<>>
    /\ d_produced = <<>>
    /\ d_consumed = <<>>
    /\ d_exc = "none"

SOff ==
    /\ s_page = <<>>
    /\ s_shown = 0
    /\ s_calls = 0
    /\ s_first = [done |-> FALSE, value |-> <<>>]

\* no pre-click marker has been recorded
UnsetMarker == [kind |-> "unset", host |-> "", path |-> ""]

PGOff ==
    /\ pg_pc = "off"
    /\ pg_cfg = [max_results |-> 0, max_pages |-> 0]
    /\ pg_page = <<>>
    /\ pg_cards = <<>>
    /\ pg_results = <<>>
    /\ pg_seen = {}
    /\ pg_pages = 0
    /\ pg_marker = UnsetMarker
    /\ pg_stop = "none"
    /\ pg_returned = <<>>
    /\ pg_page1 = <<>>

GHOff ==
    /\ gh_pc = "off"
    /\ gh_query = [board_token |-> "stripe", content |-> TRUE]
    /\ gh_resp = [kind |-> "none"]
    /\ gh_requests = <<>>
    /\ gh_jobs = <<>>
    /\ gh_out = <<>>
    /\ gh_returned = <<>>

Connector ==
    /\ pc = "idle"
    /\ query \in [max_results : MaxResultsValues]
    /\ playwright = "stopped"
    /\ browser = "none"
    /\ clicked = <<>>
    /\ results = <<>>
    /\ seen_urls = {}
    /\ stagnant_rounds = 0
    /\ last_count = 0
    /\ cards = <<>>
    /\ jobs = <<>>
    /\ exc = "none"
    /\ returned = <<>>
    /\ firstSeen = <<>>
    /\ roundStart = 0
    /\ onlyEmpty = FALSE

Init ==
    /\ Connector
    /\ GHOff
    /\ XOff
    /\ PGOff
    /\ SOff
    /\ DOff

locals == <<results, seen_urls, stagnant_rounds, last_count, cards>>

history == <<firstSeen, roundStart, onlyEmpty>>

\* an exception leaves scrape and unwinds to the `with` statement of fetch
Raise(call) ==
    /\ exc' = call
    /\ pc' = "unwind"

\* fetch() is called: `with sync_playwright() as p:`. The locals of scrape
\* are not bound before lines 61-70 run: they keep what the last call left.
FetchCall ==
    /\ pc \in {"idle", "returned", "raised"}
    /\ pc' = "launch"
    /\ playwright' = "running"
    /\ browser' = "none"
    /\ clicked' = <<>>
    /\ jobs' = <<>>
    /\ exc' = "none"
    /\ returned' = <<>>
    /\ UNCHANGED <<query, locals, history>>

\* fetch() against a page the environment is free to change
Fetch == FetchCall /\ UNCHANGED notG

\* browser = p.chromium.launch(headless=True)
Launch ==
    /\ pc = "launch"
    /\ \/ /\ browser' = "open"
          /\ pc' = "new_page"
          /\ UNCHANGED exc
       \/ /\ Raise("launch")
          /\ UNCHANGED browser
    /\ UNCHANGED <<query, playwright, clicked, locals, jobs, returned, history, notG>>

\* page = browser.new_page()
NewPage ==
    /\ pc = "new_page"
    /\ \/ /\ pc' = "goto"
          /\ UNCHANGED exc
       \/ Raise("new_page")
    /\ UNCHANGED <<query, playwright, browser, clicked, locals, jobs, returned,
                   history, notG>>

\* page.goto(url, timeout=60000)
Goto ==
    /\ pc = "goto"
    /\ \/ /\ pc' = "wait_for_load_state"
          /\ UNCHANGED exc
       \/ Raise("goto")
    /\ UNCHANGED <<query, playwright, browser, clicked, locals, jobs, returned,
                   history, notG>>

\* page.wait_for_load_state("networkidle")
WaitForLoadState ==
    /\ pc = "wait_for_load_state"
    /\ \/ /\ pc' = "cookie"
          /\ UNCHANGED exc
       \/ Raise("wait_for_load_state")
    /\ UNCHANGED <<query, playwright, browser, clicked, locals, jobs, returned,
                   history, notG>>

\* the first label of Labels whose button is visible, 0 when none is
FirstVisible(visible) ==
    IF \E i \in 1..Len(Labels) : Labels[i] \in visible
    THEN CHOOSE i \in 1..Len(Labels) :
             Labels[i] \in visible /\ \A j \in 1..(i - 1) : Labels[j] \notin visible
    ELSE 0

\* mutant: the seen-set lives on the connector and is never emptied
InitialLocals_keep ==
    [results |-> <<>>, seen_urls |-> seen_urls, stagnant_rounds |-> 0, last_count |-> 0]

\* lines 61-67: results, seen_urls, stagnant_rounds, last_count
InitialLocals ==
    [results |-> <<>>, seen_urls |-> {}, stagnant_rounds |-> 0, last_count |-> 0]

\* self._dismiss_cookie_banner(page), then the locals of scrape are set up
_dismiss_cookie_banner ==
    /\ pc = "cookie"
    /\ \E visible \in SUBSET Range(Labels) :
         LET i == FirstVisible(visible) IN
         \/ /\ clicked' = IF i = 0 THEN <<>> ELSE <<Labels[i]>>
            /\ pc' = "while"
            /\ results' = InitialLocals.results
            /\ seen_urls' = InitialLocals.seen_urls
            /\ stagnant_rounds' = InitialLocals.stagnant_rounds
            /\ last_count' = InitialLocals.last_count
            /\ firstSeen' = <<>>
            /\ roundStart' = 0
            /\ onlyEmpty' = FALSE
            /\ UNCHANGED exc
         \/ /\ i # 0                       \* btn.click() raises
            /\ Raise("banner_click")
            /\ UNCHANGED <<clicked, results, seen_urls, stagnant_rounds, last_count,
                           history>>
         \/ /\ i # 0                       \* page.wait_for_timeout(300) raises
            /\ clicked' = <<Labels[i]>>
            /\ Raise("banner_wait")
            /\ UNCHANGED <<results, seen_urls, stagnant_rounds, last_count, history>>
    /\ UNCHANGED <<query, playwright, browser, cards, jobs, returned, notG>>

\* while condition true: cards = page.query_selector_all(...)
Query(shown) ==
    /\ pc = "while"
    /\ LoopCond(Len(results), query_max_results, stagnant_rounds)
    /\ \/ /\ cards' \in shown
          /\ firstSeen' = Observe(firstSeen, cards')
          /\ roundStart' = Len(results)
          /\ onlyEmpty' = (cards' # <<>> /\ \A i \in DOMAIN cards' : Falsy(cards'[i].href))
          /\ pc' = IF cards' = <<>> THEN "progress" ELSE "for"
          /\ UNCHANGED exc
       \/ /\ Raise("query_selector_all")
          /\ UNCHANGED <<cards, history>>
    /\ UNCHANGED <<query, playwright, browser, clicked, results, seen_urls,
                   stagnant_rounds, last_count, jobs, returned>>

\* the page shows whatever the environment chooses
QuerySelectorAll == Query(CardLists) /\ UNCHANGED notG

\* one iteration of `for a in cards`
ForCard ==
    /\ pc = "for"
    /\ cards # <<>>
    /\ LET a == Head(cards) IN
       IF Skipped(a, seen_urls)
       THEN /\ UNCHANGED <<results, seen_urls>>
            /\ cards' = Tail(cards)
            /\ pc' = IF Tail(cards) = <<>> THEN "progress" ELSE "for"
       ELSE /\ seen_urls' = set_add(seen_urls, full_url(a.href))
            /\ results' = list_append(results, RecordOf(a))
            /\ IF Break(Len(results'), query_max_results)
               THEN /\ cards' = <<>>
                    /\ pc' = "progress"
               ELSE /\ cards' = Tail(cards)
                    /\ pc' = IF Tail(cards) = <<>> THEN "progress" ELSE "for"
    /\ UNCHANGED <<query, playwright, browser, clicked, stagnant_rounds, last_count,
                   jobs, exc, returned, history, notG>>

\* progress detection after the for loop
ProgressDetection ==
    /\ pc = "progress"
    /\ stagnant_rounds' = NextStagnant(Len(results), last_count, stagnant_rounds)
    /\ last_count' = NextLastCount(Len(results), last_count)
    /\ pc' = "wheel"
    /\ UNCHANGED <<query, playwright, browser, clicked, results, seen_urls, cards,
                   jobs, exc, returned, history, notG>>

\* page.mouse.wheel(0, 2000)
MouseWheel ==
    /\ pc = "wheel"
    /\ \/ /\ pc' = "wait_for_timeout"
          /\ UNCHANGED exc
       \/ Raise("wheel")
    /\ UNCHANGED <<query, playwright, browser, clicked, locals, jobs, returned,
                   history, notG>>

\* page.wait_for_timeout(800)
WaitForTimeout ==
    /\ pc = "wait_for_timeout"
    /\ \/ /\ pc' = "while"
          /\ UNCHANGED exc
       \/ Raise("wait_for_timeout")
    /\ UNCHANGED <<query, playwright, browser, clicked, locals, jobs, returned,
                   history, notG>>

\* while condition false: return results[: self.query.max_results]
ScrapeReturn ==
    /\ pc = "while"
    /\ ~LoopCond(Len(results), query_max_results, stagnant_rounds)
    /\ jobs' = ScrapeResult(results, query_max_results)
    /\ pc' = "close"
    /\ UNCHANGED <<query, playwright, browser, clicked, locals, exc, returned,
                   history, notG>>

\* browser.close()
BrowserClose ==
    /\ pc = "close"
    /\ browser' = "closed"
    /\ pc' = "return"
    /\ UNCHANGED <<query, playwright, clicked, locals, jobs, exc, returned,
                   history, notG>>

\* return jobs, leaving the `with` block
FetchReturn ==
    /\ pc = "return"
    /\ playwright' = "stopped"
    /\ returned' = jobs
    /\ pc' = "returned"
    /\ UNCHANGED <<query, browser, clicked, locals, jobs, exc, history, notG>>

\* an exception leaves the `with` block and reaches the caller of fetch
FetchRaise ==
    /\ pc = "unwind"
    /\ playwright' = "stopped"
    /\ pc' = "raised"
    /\ UNCHANGED <<query, browser, clicked, locals, jobs, exc, returned,
                   history, notG>>

Next ==
    \/ Fetch
    \/ Launch
    \/ NewPage
    \/ Goto
    \/ WaitForLoadState
    \/ _dismiss_cookie_banner
    \/ QuerySelectorAll
    \/ ForCard
    \/ ProgressDetection
    \/ MouseWheel
    \/ WaitForTimeout
    \/ ScrapeReturn
    \/ BrowserClose
    \/ FetchReturn
    \/ FetchRaise

Spec == Init /\ [][Next]_vars

FairSpec == Spec /\ WF_vars(Next)

-----------------------------------------------------------------------------
(* Two fetch() calls of one connector against a scripted page *)

\* the cards of a scripted page: one posting under two hrefs, another posting,
\* and a card without a usable href
ScriptCards ==
    {a \in Cards : a.href \in {RelHref("/jobs/results/1"),
                               AbsHref(GOOGLE, "/jobs/results/1"),
                               AbsHref(GOOGLE, "/jobs/results/2"),
                               EmptyHref}}

ScriptLists == SeqsUpTo(ScriptCards, 1)

\* a page behaviour: the list shown at each query; the last one stays
Scripts == SeqsUpTo(ScriptLists, MaxScript) \ {<<>>}

\* what the scripted page shows at the next query of the session
ShownNext == s_page[Min(s_shown + 1, Len(s_page))]

InitTwice ==
    /\ Connector
    /\ GHOff
    /\ XOff
    /\ PGOff
    /\ s_page \in Scripts
    /\ s_shown = 0
    /\ s_calls = 0
    /\ s_first = [done |-> FALSE, value |-> <<>>]
    /\ DOff

\* fetch() is called; the second call remembers how the first one ended
FetchAgain ==
    /\ s_calls < 2
    /\ FetchCall
    /\ s_calls' = s_calls + 1
    /\ s_shown' = 0
    /\ s_first' = IF s_calls = 1
                  THEN [done |-> pc = "returned", value |-> returned]
                  ELSE s_first
    /\ UNCHANGED <<s_page, others>>

\* page.query_selector_all(...) answered by the script
QueryScripted ==
    /\ Query({ShownNext})
    /\ s_shown' = Min(s_shown + 1, Len(s_page))
    /\ UNCHANGED <<s_page, s_calls, s_first, others>>

NextTwice ==
    \/ FetchAgain
    \/ Launch
    \/ NewPage
    \/ Goto
    \/ WaitForLoadState
    \/ _dismiss_cookie_banner
    \/ QueryScripted
    \/ ForCard
    \/ ProgressDetection
    \/ MouseWheel
    \/ WaitForTimeout
    \/ ScrapeReturn
    \/ BrowserClose
    \/ FetchReturn
    \/ FetchRaise

SpecTwice == InitTwice /\ [][NextTwice]_vars

----------------------------------------------------------------------------
(* JSON / Python values of the Greenhouse response *)

JNull == [t |-> "null"]               \* null / None
JStr(s) == [t |-> "str", v |-> s]
JNum(n) == [t |-> "num", v |-> n]
JObj(f) == [t |-> "obj", v |-> f]     \* f: a function from keys to values
JArr(s) == [t |-> "arr", v |-> s]

EmptyObj == JObj(<<>>)
EmptyArr == JArr(<<>>)
EmptyStr == JStr("")

\* the elements a jobs list can hold
JobElems ==
    {JObj([id |-> JNum(1), title |-> JStr("X"),
           location |-> JObj([name |-> JStr("NY")]),
           absolute_url |-> JStr("u1"), content |-> JStr("c"),
           departments |-> JArr(<<JObj([name |-> JStr("Eng")])>>)]),
     JObj([id |-> JNum(2), title |-> JStr("Y"), location |-> JNull,
           absolute_url |-> JStr("u2")]),
     JObj([title |-> JStr("Z"), location |-> EmptyObj, content |-> JStr("d")]),
     EmptyObj,
     JObj([title |-> JStr("W"), location |-> JStr("NY")]),   \* location not an object
     JNum(7)}                                                 \* element not an object

JobLists == SeqsUpTo(JobElems, MaxJobs)

\* response bodies: text that is not JSON, or a JSON value
NotJson == [t |-> "invalid"]

Bodies ==
    {NotJson, EmptyArr, EmptyObj,
     JObj([jobs |-> JNull]), JObj([jobs |-> JStr("none")]), JObj([jobs |-> JNum(5)])}
    \cup {JObj([jobs |-> JArr(l)]) : l \in JobLists}
    \cup {JObj([meta |-> JNum(1), jobs |-> JArr(l)]) : l \in SeqsUpTo(JobElems, 1)}

Statuses == {200, 404, 500}

Responses ==
    {[kind |-> "exception", status |-> 0, body |-> NotJson]}   \* requests.get raised
    \cup [kind : {"http"}, status : Statuses, body : Bodies]

GreenhouseQueries == [board_token : {"stripe", "anthropic"}, content : BOOLEAN]

\* bool(x)
Truthy(x) ==
    CASE x.t = "null" -> FALSE
      [] x.t = "str" -> x.v # ""
      [] x.t = "num" -> x.v # 0
      [] x.t = "obj" -> DOMAIN x.v # {}
      [] x.t = "arr" -> x.v # <<>>

\* x or y
Or(x, y) == IF Truthy(x) THEN x ELSE y

\* x has a .get method (x is a dict)
HasGet(x) == x.t = "obj"

\* x.get(k, default), for a dict x
Get(x, k, default) == IF k \in DOMAIN x.v THEN x.v[k] ELSE default

\* `for j in x` is possible
Iterable(x) == x.t \in {"arr", "str", "obj"}

\* what `for j in x` visits: the elements of a list; for a string or a dict,
\* strings (characters, keys), of which the truthy values of Bodies have some
Elements(x) == IF x.t = "arr" THEN x.v ELSE <<JStr("k")>>

\* mutant: only server errors raise
RaisesForStatus_5xx(status) == 500 <= status /\ status < 600

\* Response.raise_for_status raises
RaisesForStatus(status) == 400 <= status /\ status < 600

\* Response.json raises
JsonRaises(body) == body.t = "invalid"

\* data.get("jobs", []) or []
JobsOf(data) == Or(Get(data, "jobs", EmptyArr), EmptyArr)

\* (j.get("location") or {})
LocationOf(j) == Or(Get(j, "location", JNull), EmptyObj)

\* building the dictionary for j raises AttributeError
MapRaises(j) == ~HasGet(j) \/ ~HasGet(LocationOf(j))

\* mutant: content is copied whatever the query says
MapJob_content(j, q) ==
    [source |-> "greenhouse",
     board_token |-> q.board_token,
     id |-> Get(j, "id", JNull),
     title |-> Get(j, "title", JNull),
     location |-> Get(LocationOf(j), "name", EmptyStr),
     absolute_url |-> Get(j, "absolute_url", EmptyStr),
     content |-> Get(j, "content", EmptyStr),
     departments |-> Get(j, "departments", EmptyArr),
     offices |-> Get(j, "offices", EmptyArr),
     raw |-> j]

\* the dictionary appended for j
MapJob(j, q) ==
    [source |-> "greenhouse",
     board_token |-> q.board_token,
     id |-> Get(j, "id", JNull),
     title |-> Get(j, "title", JNull),
     location |-> Get(LocationOf(j), "name", EmptyStr),
     absolute_url |-> Get(j, "absolute_url", EmptyStr),
     content |-> IF q.content THEN Get(j, "content", EmptyStr) ELSE EmptyStr,
     departments |-> Get(j, "departments", EmptyArr),
     offices |-> Get(j, "offices", EmptyArr),
     raw |-> j]

\* params of the GET request
Params(q) == IF q.content THEN [content |-> "true"] ELSE <<>>

----------------------------------------------------------------------------
(* GreenhouseConnector.fetch *)

GOff ==
    /\ pc = "off"
    /\ query = [max_results |-> 0]
    /\ playwright = "stopped"
    /\ browser = "none"
    /\ clicked = <<>>
    /\ results = <<>>
    /\ seen_urls = {}
    /\ stagnant_rounds = 0
    /\ last_count = 0
    /\ cards = <<>>
    /\ jobs = <<>>
    /\ exc = "none"
    /\ returned = <<>>
    /\ firstSeen = <<>>
    /\ roundStart = 0
    /\ onlyEmpty = FALSE

InitGH ==
    /\ GOff
    /\ XOff
    /\ PGOff
    /\ SOff
    /\ DOff
    /\ gh_pc = "idle"
    /\ gh_query \in GreenhouseQueries
    /\ gh_resp = [kind |-> "none"]
    /\ gh_requests = <<>>
    /\ gh_jobs = <<>>
    /\ gh_out = <<>>
    /\ gh_returned = <<>>

\* fetch() is called on the connector configured with q: base and params are
\* built, the request is sent
Request(q) ==
    /\ gh_pc \in {"idle", "returned", "raised"}
    /\ gh_query' = q
    /\ gh_requests' = <<[board_token |-> q.board_token, params |-> Params(q)]>>
    /\ gh_resp' \in Responses
    /\ gh_pc' = IF gh_resp'.kind = "exception" THEN "raised" ELSE "raise_for_status"
    /\ gh_jobs' = <<>>
    /\ gh_out' = <<>>
    /\ gh_returned' = <<>>

\* fetch() is called on the one connector of SpecGH
RequestsGet == Request(gh_query) /\ UNCHANGED notGH

\* resp.raise_for_status()
RaiseForStatus ==
    /\ gh_pc = "raise_for_status"
    /\ gh_pc' = IF RaisesForStatus(gh_resp.status) THEN "raised" ELSE "json"
    /\ UNCHANGED <<gh_query, gh_resp, gh_requests, gh_jobs, gh_out, gh_returned, notGH>>

\* data = resp.json(); jobs = data.get("jobs", []) or []; out = []; the for
\* statement takes an iterator of jobs
Json ==
    /\ gh_pc = "json"
    /\ IF \/ JsonRaises(gh_resp.body)
          \/ ~HasGet(gh_resp.body)
          \/ ~Iterable(JobsOf(gh_resp.body))
       THEN /\ gh_pc' = "raised"
            /\ UNCHANGED gh_jobs
       ELSE /\ gh_pc' = "for"
            /\ gh_jobs' = Elements(JobsOf(gh_resp.body))
    /\ gh_out' = <<>>
    /\ UNCHANGED <<gh_query, gh_resp, gh_requests, gh_returned, notGH>>

\* one iteration of `for j in jobs`
ForJob ==
    /\ gh_pc = "for"
    /\ gh_jobs # <<>>
    /\ IF MapRaises(Head(gh_jobs))
       THEN /\ gh_pc' = "raised"
            /\ UNCHANGED <<gh_jobs, gh_out>>
       ELSE /\ gh_out' = Append(gh_out, MapJob(Head(gh_jobs), gh_query))
            /\ gh_jobs' = Tail(gh_jobs)
            /\ UNCHANGED gh_pc
    /\ UNCHANGED <<gh_query, gh_resp, gh_requests, gh_returned, notGH>>

\* return out
GHReturn ==
    /\ gh_pc = "for"
    /\ gh_jobs = <<>>
    /\ gh_returned' = gh_out
    /\ gh_pc' = "returned"
    /\ UNCHANGED <<gh_query, gh_resp, gh_requests, gh_jobs, gh_out, notGH>>

NextGH ==
    \/ RequestsGet
    \/ RaiseForStatus
    \/ Json
    \/ ForJob
    \/ GHReturn

SpecGH == InitGH /\ [][NextGH]_vars

-----------------------------------------------------------------------------
(* call_connectors over the registry *)

\* registry.get_connectors()
get_connectors ==
    <<[board_token |-> "stripe", content |-> TRUE],
      [board_token |-> "anthropic", content |-> TRUE]>>

\* j["departments"][0]['name'] raises IndexError, KeyError or TypeError
PrintRaises(j) ==
    LET d == j.departments IN
    ~(/\ d.t = "arr"
      /\ d.v # <<>>
      /\ d.v[1].t = "obj"
      /\ "name" \in DOMAIN d.v[1].v)

InitD ==
    /\ GOff
    /\ XOff
    /\ PGOff
    /\ SOff
    /\ gh_pc = "idle"
    /\ gh_query = get_connectors[1]
    /\ gh_resp = [kind |-> "none"]
    /\ gh_requests = <<>>
    /\ gh_jobs = <<>>
    /\ gh_out = <<>>
    /\ gh_returned = <<>>
    /\ d_pc = "idle"
    /\ d_i = 0
    /\ d_fetched = <<>>
    /\ d_jobs = <<>>
    /\ d_produced = <<>>
    /\ d_consumed = <<>>
    /\ d_exc = "none"

\* connectors = get_connectors()
CallConnectors ==
    /\ d_pc = "idle"
    /\ d_pc' = "for"
    /\ UNCHANGED <<d_i, d_fetched, d_jobs, d_produced, d_consumed, d_exc, ghvars, notD>>

\* for connector in connectors: connector.fetch() is entered
ConnectorFetch ==
    /\ d_pc = "for"
    /\ d_i < Len(get_connectors)
    /\ d_i' = d_i + 1
    /\ Request(get_connectors[d_i'])
    /\ d_fetched' = Append(d_fetched, get_connectors[d_i'].board_token)
    /\ d_pc' = "fetch"
    /\ UNCHANGED <<d_jobs, d_produced, d_consumed, d_exc, notD>>

\* jobs = connector.fetch(); print(connector.name, "jobs:", len(jobs))
ConnectorReturned ==
    /\ d_pc = "fetch"
    /\ gh_pc = "returned"
    /\ d_jobs' = gh_returned
    /\ d_produced' = d_produced \o gh_returned
    /\ d_pc' = "print"
    /\ UNCHANGED <<d_i, d_fetched, d_consumed, d_exc, ghvars, notD>>

\* connector.fetch() raised: nothing catches it
ConnectorRaised ==
    /\ d_pc = "fetch"
    /\ gh_pc = "raised"
    /\ d_pc' = "raised"
    /\ d_exc' = "fetch"
    /\ UNCHANGED <<d_i, d_fetched, d_jobs, d_produced, d_consumed, ghvars, notD>>

\* one iteration of `for j in jobs`: the print of line 11
PrintJob ==
    /\ d_pc = "print"
    /\ d_jobs # <<>>
    /\ IF PrintRaises(Head(d_jobs))
       THEN /\ d_pc' = "raised"
            /\ d_exc' = "print"
            /\ UNCHANGED <<d_jobs, d_consumed>>
       ELSE /\ d_consumed' = Append(d_consumed, Head(d_jobs))
            /\ d_jobs' = Tail(d_jobs)
            /\ UNCHANGED <<d_pc, d_exc>>
    /\ UNCHANGED <<d_i, d_fetched, d_produced, ghvars, notD>>

\* the inner loop is over: next connector
NextConnector ==
    /\ d_pc = "print"
    /\ d_jobs = <<>>
    /\ d_pc' = "for"
    /\ UNCHANGED <<d_i, d_fetched, d_jobs, d_produced, d_consumed, d_exc, ghvars, notD>>

\* the outer loop is over: call_connectors returns
CallConnectorsReturn ==
    /\ d_pc = "for"
    /\ d_i = Len(get_connectors)
    /\ d_pc' = "done"
    /\ UNCHANGED <<d_i, d_fetched, d_jobs, d_produced, d_consumed, d_exc, ghvars, notD>>

NextD ==
    \/ CallConnectors
    \/ ConnectorFetch
    \/ RaiseForStatus
    \/ Json
    \/ ForJob
    \/ GHReturn
    \/ ConnectorReturned
    \/ ConnectorRaised
    \/ PrintJob
    \/ NextConnector
    \/ CallConnectorsReturn

SpecD == InitD /\ [][NextD]_vars

----------------------------------------------------------------------------
(* Extraction of one card: lines 73-98 of scrape on an arbitrary inner text *)

Chars == {"A", "B", " ", NL}

Texts == SeqsUpTo(Chars, MaxTextLen)

InitX ==
    /\ GOff
    /\ GHOff
    /\ PGOff
    /\ SOff
    /\ DOff
    /\ x_pc = "ready"
    /\ x_card \in [href : {AbsHref(GOOGLE, "/jobs/results/1")}, text : Texts]
    /\ x_rec = <<>>

\* raw_text = a.inner_text().strip(); title, location, team; the dictionary
Extract ==
    /\ x_pc = "ready"
    /\ x_rec' = Record(x_card)
    /\ x_pc' = "done"
    /\ UNCHANGED <<x_card, notX>>

NextX == Extract

SpecX == InitX /\ [][NextX]_vars

-----------------------------------------------------------------------------
(* Discrete pagination: strategy A of the scrape session engine *)

PgConfigs == [max_results : 0..MaxMaxResults, max_pages : 0..MaxPages]

NextControls == {"absent", "disabled", "enabled"}

\* the identifier of a result element
ElementId(a) == a.href

\* step 2: loop while len(results) < max_results and pages_visited < max_pages
PgLoopCond(n, pages, cfg) == n < cfg.max_results /\ pages < cfg.max_pages

\* what a page can show once the first element's identifier has left `marker`
PagesAfter(marker) ==
    {l \in CardLists : l = <<>> \/ marker = UnsetMarker \/ ElementId(l[1]) # marker}

\* mutant: a stalled navigation is tried again
AdvanceOutcome_retry(changed) == "loop"

\* step 2e: the loop goes on when the identifier changed, and stops otherwise
AdvanceOutcome(changed) == IF changed THEN "loop" ELSE "stop"

InitPG ==
    /\ GOff
    /\ GHOff
    /\ XOff
    /\ SOff
    /\ DOff
    /\ pg_pc = "idle"
    /\ pg_cfg \in PgConfigs
    /\ pg_page = <<>>
    /\ pg_cards = <<>>
    /\ pg_results = <<>>
    /\ pg_seen = {}
    /\ pg_pages = 0
    /\ pg_marker = UnsetMarker
    /\ pg_stop = "none"
    /\ pg_returned = <<>>
    /\ pg_page1 = <<>>

\* a session starts
PgFetch ==
    /\ pg_pc \in {"idle", "returned", "raised"}
    /\ pg_pc' = "navigate"
    /\ pg_page' = <<>>
    /\ pg_cards' = <<>>
    /\ pg_results' = <<>>
    /\ pg_seen' = {}
    /\ pg_pages' = 0
    /\ pg_marker' = UnsetMarker
    /\ pg_stop' = "none"
    /\ pg_returned' = <<>>
    /\ pg_page1' = <<>>
    /\ UNCHANGED <<pg_cfg, notPG>>

\* step 1: navigate and wait, bounded, for a result element; a timeout is a
\* hard failure of the whole scrape
PgNavigate ==
    /\ pg_pc = "navigate"
    /\ \/ /\ pg_pc' = "loop"
          /\ UNCHANGED pg_stop
       \/ /\ pg_pc' = "raised"
          /\ pg_stop' = "hard_failure"
    /\ UNCHANGED <<pg_cfg, pg_page, pg_cards, pg_results, pg_seen, pg_pages,
                   pg_marker, pg_returned, pg_page1, notPG>>

\* step 2a: enumerate the visible result elements; none is the empty page
PgEnumerate ==
    /\ pg_pc = "loop"
    /\ PgLoopCond(Len(pg_results), pg_pages, pg_cfg)
    /\ pg_page' \in PagesAfter(pg_marker)
    /\ pg_cards' = pg_page'
    /\ pg_pages' = pg_pages + 1
    /\ IF pg_page' = <<>>
       THEN pg_pc' = "stop" /\ pg_stop' = "empty_page"
       ELSE pg_pc' = "extract" /\ UNCHANGED pg_stop
    /\ UNCHANGED <<pg_cfg, pg_results, pg_seen, pg_marker, pg_returned, pg_page1,
                   notPG>>

\* the loop condition fails
PgLoopExit ==
    /\ pg_pc = "loop"
    /\ ~PgLoopCond(Len(pg_results), pg_pages, pg_cfg)
    /\ pg_pc' = "stop"
    /\ pg_stop' = IF Len(pg_results) >= pg_cfg.max_results
                  THEN "target_reached" ELSE "max_pages"
    /\ UNCHANGED <<pg_cfg, pg_page, pg_cards, pg_results, pg_seen, pg_pages,
                   pg_marker, pg_returned, pg_page1, notPG>>

\* step 2b: one element is extracted, skipped or appended; extraction stops
\* mid-page once max_results is reached
PgExtract ==
    /\ pg_pc = "extract"
    /\ pg_cards # <<>>
    /\ LET a == Head(pg_cards) IN
       IF Skipped(a, pg_seen)
       THEN /\ UNCHANGED <<pg_results, pg_seen>>
            /\ pg_cards' = Tail(pg_cards)
       ELSE /\ pg_seen' = pg_seen \cup {full_url(a.href)}
            /\ pg_results' = Append(pg_results, RecordOf(a))
            /\ pg_cards' = IF Len(pg_results') >= pg_cfg.max_results
                           THEN <<>> ELSE Tail(pg_cards)
    /\ pg_pc' = IF pg_cards' = <<>> THEN "locate" ELSE "extract"
    /\ pg_page1' = IF pg_pages = 1 THEN pg_results' ELSE pg_page1
    /\ UNCHANGED <<pg_cfg, pg_page, pg_pages, pg_marker, pg_stop, pg_returned, notPG>>

\* steps 2c and 2d: record the pre-click marker, locate the next control
PgLocateNext ==
    /\ pg_pc = "locate"
    /\ pg_marker' = ElementId(pg_page[1])
    /\ \E control \in NextControls :
         IF control = "enabled"
         THEN pg_pc' = "advance" /\ UNCHANGED pg_stop
         ELSE pg_pc' = "stop" /\ pg_stop' = "no_more_pages"
    /\ UNCHANGED <<pg_cfg, pg_page, pg_cards, pg_results, pg_seen, pg_pages,
                   pg_returned, pg_page1, notPG>>

\* step 2e: activate the control, wait (bounded) for the first element's
\* identifier to differ from the marker
PgAdvance ==
    /\ pg_pc = "advance"
    /\ \E changed \in BOOLEAN :
         /\ pg_pc' = AdvanceOutcome(changed)
         /\ pg_stop' = IF changed THEN "none" ELSE "stalled"
    /\ UNCHANGED <<pg_cfg, pg_page, pg_cards, pg_results, pg_seen, pg_pages,
                   pg_marker, pg_returned, pg_page1, notPG>>

\* step 3: return results truncated to max_results
PgReturn ==
    /\ pg_pc = "stop"
    /\ pg_returned' = Slice(pg_results, pg_cfg.max_results)
    /\ pg_pc' = "returned"
    /\ UNCHANGED <<pg_cfg, pg_page, pg_cards, pg_results, pg_seen, pg_pages,
                   pg_marker, pg_stop, pg_page1, notPG>>

NextPG ==
    \/ PgFetch
    \/ PgNavigate
    \/ PgEnumerate
    \/ PgLoopExit
    \/ PgExtract
    \/ PgLocateNext
    \/ PgAdvance
    \/ PgReturn

SpecPG == InitPG /\ [][NextPG]_vars

\* the session's single thread never stops
FairSpecPG == SpecPG /\ WF_vars(NextPG)

----------------------------------------------------------------------------
(* Properties of the Google Careers scrape session *)

Running == pc \notin {"off", "idle", "returned", "raised"}

InLoop == pc \in {"while", "for", "progress", "wheel", "wait_for_timeout"}

\* scrape has returned to fetch
Scraped == pc \in {"close", "return", "returned"}

Urls(res) == [i \in 1..Len(res) |-> res[i].source_url]

Distinct(s) == \A i, j \in 1..Len(s) : i # j => s[i] # s[j]

FirstN(s, n) == [i \in 1..Min(Max(n, 0), Len(s)) |-> s[i]]

\* C1: the source_url values of the records scrape returns, and fetch hands to
\* its caller, are pairwise distinct, whatever cards the page showed.
C1_Dedup ==
    /\ Distinct(Urls(results))
    /\ Distinct(Urls(jobs))
    /\ Distinct(Urls(returned))

\* C1 witness: a round shows the same card twice and its URL is one of two
\* already collected.
C1_Witness ==
    /\ pc = "for"
    /\ Len(cards) = 2
    /\ cards[1] = cards[2]
    /\ ~Falsy(cards[1].href)
    /\ full_url(cards[1].href) \in seen_urls
    /\ Len(results) = 2

\* C2 as stated: the returned sequence is never longer than max_results, for
\* every configured max_results.
C2_Original ==
    pc = "returned" => Len(returned) <= query.max_results

\* C2 amended: the returned sequence is never longer than max_results when
\* max_results >= 0, and is empty when max_results is negative.
C2_Bound ==
    /\ Scraped => Len(jobs) <= Max(query.max_results, 0)
    /\ Len(returned) <= Max(query.max_results, 0)

\* C2 witness: the page showed three postings, max_results is 2 and two
\* records were returned.
C2_Witness ==
    /\ pc = "returned"
    /\ query.max_results = 2
    /\ Len(returned) = 2
    /\ Len(firstSeen) = 3

\* the calls of scrape that can raise
ScrapeCalls ==
    {"goto", "wait_for_load_state", "banner_click", "banner_wait",
     "query_selector_all", "wheel", "wait_for_timeout"}

\* C3 as stated: when fetch has returned, or scrape has raised and fetch has
\* passed the exception on, the browser fetch launched has been closed.
C3_BrowserReleased ==
    (pc = "returned" \/ (pc = "raised" /\ exc \in ScrapeCalls)) => browser = "closed"

\* C4: every started call of fetch ends: the scroll loop is left, and fetch
\* returns or raises.
C4_Termination ==
    /\ InLoop ~> ~InLoop
    /\ Running ~> (pc \in {"returned", "raised"})

\* C4 witness: a page that never produced a card made the loop stop by
\* stagnation and fetch returned.
C4_Witness ==
    /\ pc = "returned"
    /\ query.max_results = MaxMaxResults
    /\ stagnant_rounds = STAGNATION_LIMIT
    /\ firstSeen = <<>>

\* a step inside one session keeps the accumulated list as a prefix and adds
\* at most one record, for a URL no earlier record has
OrderStep ==
    (Running /\ pc # "cookie") =>
        /\ IsPrefix(results, results')
        /\ Len(results') <= Len(results) + 1
        /\ Len(results') = Len(results) + 1 =>
               results'[Len(results')].source_url \notin Range(Urls(results))

\* the records are in the order in which the page first showed their URLs
FirstObservedOrder ==
    /\ IsPrefix(Urls(results), firstSeen)
    /\ (pc \in {"progress", "wheel", "wait_for_timeout", "while"}
          /\ Len(results) < query.max_results) => Urls(results) = firstSeen
    /\ Scraped => IsPrefix(jobs, results) /\ IsPrefix(returned, jobs)

\* C5: within one session results only grows by appending, so earlier lists
\* are prefixes of later ones; the records are in first-observation order;
\* an already-seen URL never reorders, replaces or duplicates an entry.
C5_OrderPreserved == [][OrderStep]_vars /\ []FirstObservedOrder

\* C5 witness: the URL of the first of two collected records is shown again,
\* by a card with another text.
C5_Witness ==
    /\ pc = "for"
    /\ Len(results) = 2
    /\ cards # <<>>
    /\ ~Falsy(Head(cards).href)
    /\ full_url(Head(cards).href) = results[1].source_url
    /\ RecordOf(Head(cards)) # results[1]

\* C6 as stated: a failure of the wheel event or of the settle wait is never
\* an exception leaving scrape.
C6_AdvanceFailureStops ==
    exc \in {"wheel", "wait_for_timeout"} => pc \notin {"unwind", "raised"}

\* C7: when the loop stops by a stop condition, what scrape returns, and what
\* fetch hands to its caller, is every accumulated record, in order, up to
\* max_results.
C7_PartialResultsReturned ==
    /\ Scraped => jobs = FirstN(results, query.max_results)
    /\ pc = "returned" => returned = FirstN(results, query.max_results)

\* C7 witness: the loop stalled with one record collected, short of the
\* target, and that record was returned.
C7_Witness ==
    /\ pc = "returned"
    /\ stagnant_rounds = STAGNATION_LIMIT
    /\ Len(results) = 1
    /\ query.max_results > 1
    /\ returned = results

\* C8: stagnant_rounds is always between 0 and the stagnation limit.
C8_StagnantBounded ==
    stagnant_rounds \in 0..STAGNATION_LIMIT

\* C8 witness: the loop is left with stagnant_rounds at the limit after some
\* records were collected.
C8_Witness ==
    /\ pc = "close"
    /\ stagnant_rounds = STAGNATION_LIMIT
    /\ Len(results) = 2

\* the end of a round: one more stagnant round when the round appended
\* nothing, none when it appended something
StagnationStep ==
    pc = "progress" =>
        stagnant_rounds' = IF Len(results) = roundStart
                           THEN stagnant_rounds + 1
                           ELSE 0

\* the loop was left although the target was not reached
StallExit == pc = "close" /\ Len(results) < query.max_results

\* C13: at the end of each scroll round stagnant_rounds grows by one if the
\* round appended no record and becomes 0 if it appended one; so the loop is
\* left by stall only with 6 consecutive rounds that added nothing behind it.
C13_StagnationAccounting ==
    /\ [][StagnationStep]_vars
    /\ [](StallExit => stagnant_rounds = STAGNATION_LIMIT /\ Len(results) = roundStart)

\* C13 witness: a round that appended the second record has just put the
\* count back to 0.
C13_Witness ==
    /\ pc = "wheel"
    /\ roundStart = 1
    /\ Len(results) = 2
    /\ stagnant_rounds = 0

\* a card without href, or with an empty one, leaves results and seen-set alone
SkipStep ==
    (pc = "for" /\ Head(cards).href \in {NoneHref, EmptyHref}) =>
        /\ results' = results
        /\ seen_urls' = seen_urls

\* a round that showed only such cards counts as a stagnant round
EmptyRoundStep ==
    (pc = "progress" /\ onlyEmpty) => stagnant_rounds' = stagnant_rounds + 1

\* no record of the list was made from an empty href
NoEmptyUrl(res) == \A i \in 1..Len(res) : res[i].source_url.path # ""

\* C14: an element whose href is missing or empty is skipped: it adds nothing
\* to the seen-set or to results, no record has an empty source_url, and the
\* element is no progress for the stagnation counter.
C14_EmptyHrefSkipped ==
    /\ [][SkipStep /\ EmptyRoundStep]_vars
    /\ [](NoEmptyUrl(results) /\ NoEmptyUrl(jobs) /\ NoEmptyUrl(returned))
    /\ [](\A u \in seen_urls : u.path # "")

\* C14 witness: after one record was collected, a round showed only cards
\* without href and it was counted as stagnant.
C14_Witness ==
    /\ pc = "wheel"
    /\ onlyEmpty
    /\ Len(results) = 1
    /\ stagnant_rounds = 1

\* C16: consent dismissal is one best-effort step before the loop: at most
\* one control is clicked per scrape, the first visible one of the labels, and
\* no failure of that interaction is ever surfaced by scrape.
C16_ConsentBestEffort ==
    /\ Len(clicked) <= 1
    /\ exc \notin {"banner_click", "banner_wait"}

\* a step of the loop adds a URL to the seen-set exactly when it appends a record
AddIffAppend ==
    InLoop => ((seen_urls' # seen_urls) <=> (results' # results))

\* C18: in every state of the scroll loop the seen-set is exactly the set of
\* source_url values of the accumulated results and has as many elements as
\* results has records; a URL is added if and only if its record is appended.
C18_SeenMatchesResults ==
    /\ [](InLoop => /\ seen_urls = Range(Urls(results))
                    /\ Cardinality(seen_urls) = Len(results))
    /\ [][AddIffAppend]_vars

\* C18 witness: in the middle of a round two records are collected and two
\* URLs are in the seen-set.
C18_Witness ==
    /\ pc = "for"
    /\ Len(results) = 2
    /\ Cardinality(seen_urls) = 2

\* C19: with max_results >= 0 the accumulated list never holds more than
\* max_results records, in any intermediate state; so the final truncation
\* drops nothing: scrape returns the whole accumulated list.
C19_NeverOverTarget ==
    query.max_results >= 0 =>
        /\ Len(results) <= query.max_results
        /\ Scraped => jobs = results

\* C19 witness: one round appended two records, which reached the target of
\* 2, and scrape returned both.
C19_Witness ==
    /\ pc = "close"
    /\ query.max_results = 2
    /\ roundStart = 0
    /\ Len(results) = 2
    /\ jobs = results

\* C20: at the start of every scroll round last_count is the length of
\* results, and it never exceeds it; the progress check compares against the
\* count at the start of the same round; stagnant_rounds > 0 after a round means
\* that round added nothing.
C20_LastCount ==
    /\ pc = "while" => last_count = Len(results)
    /\ last_count <= Len(results)
    /\ pc \in {"for", "progress"} => last_count = roundStart
    /\ (pc \in {"wheel", "wait_for_timeout", "while"} /\ stagnant_rounds > 0) =>
           Len(results) = roundStart

\* C20 witness: a round starts after two rounds that added nothing to the one
\* record collected before.
C20_Witness ==
    /\ pc = "while"
    /\ stagnant_rounds = 2
    /\ Len(results) = 1
    /\ last_count = 1

----------------------------------------------------------------------------
(* Properties of the Greenhouse fetch *)

GHDone == gh_pc \in {"returned", "raised"}

NonSuccess(resp) == resp.kind = "exception" \/ resp.status \notin 200..299

Unparseable(resp) == resp.body = NotJson

\* the jobs list of a body, <<>> when the body has none
BodyJobs(body) ==
    IF body.t = "obj" /\ "jobs" \in DOMAIN body.v /\ body.v.jobs.t = "arr"
    THEN body.v.jobs.v ELSE <<>>

Mappable(j) ==
    /\ j.t = "obj"
    /\ "location" \in DOMAIN j.v => j.v.location.t \in {"null", "obj"}

\* the body of a success response fetch can map
GoodBody(body) ==
    /\ body.t = "obj"
    /\ "jobs" \in DOMAIN body.v => body.v.jobs.t = "arr"
    /\ \A i \in 1..Len(BodyJobs(body)) : Mappable(BodyJobs(body)[i])

\* what the claim says of the record made for element j
MappedAs(rec, j, q) ==
    /\ rec.source = "greenhouse"
    /\ "title" \in DOMAIN j.v => rec.title = j.v.title
    /\ "absolute_url" \in DOMAIN j.v => rec.absolute_url = j.v.absolute_url
    /\ "location" \notin DOMAIN j.v => rec.location = EmptyStr
    /\ ("location" \in DOMAIN j.v /\ j.v.location.t = "obj"
          /\ "name" \in DOMAIN j.v.location.v) => rec.location = j.v.location.v.name
    /\ (q.content /\ "content" \in DOMAIN j.v) => rec.content = j.v.content
    /\ ~q.content => rec.content = EmptyStr

\* C10: on a success response fetch sends exactly one request and returns one
\* record per element of the jobs list, in order, with source, title,
\* absolute_url, location and content as the claim states; a body without a
\* jobs key gives the empty list.
C10_Mapping ==
    /\ GHDone => Len(gh_requests) = 1
    /\ (GHDone /\ ~NonSuccess(gh_resp) /\ GoodBody(gh_resp.body)) => gh_pc = "returned"
    /\ gh_pc = "returned" =>
          /\ Len(gh_returned) = Len(BodyJobs(gh_resp.body))
          /\ \A i \in 1..Len(gh_returned) :
                 MappedAs(gh_returned[i], BodyJobs(gh_resp.body)[i], gh_query)
          /\ "jobs" \notin DOMAIN gh_resp.body.v => gh_returned = <<>>

\* C10 witness: with content=true two different elements, the first with a
\* location name and content, were returned as two records.
C10_Witness ==
    /\ gh_pc = "returned"
    /\ gh_query.content
    /\ Len(gh_returned) = 2
    /\ gh_returned[1].location = JStr("NY")
    /\ gh_returned[1].content = JStr("c")
    /\ gh_returned[2].location = EmptyStr
    /\ gh_returned[2] # gh_returned[1]

----------------------------------------------------------------------------
(* Properties of the extraction heuristic *)

\* the lines of a text: the pieces between newlines
RECURSIVE PiecesOf(_)
PiecesOf(s) ==
    IF NL \notin Range(s) THEN <<s>>
    ELSE LET k == CHOOSE i \in 1..Len(s) : s[i] = NL /\ NL \notin Range(SubSeq(s, 1, i - 1))
         IN <<SubSeq(s, 1, k - 1)>> \o PiecesOf(SubSeq(s, k + 1, Len(s)))

\* a line without its leading and trailing blanks
RECURSIVE Trimmed(_)
Trimmed(s) ==
    IF s = <<>> THEN s
    ELSE IF Head(s) = " " THEN Trimmed(Tail(s))
    ELSE IF s[Len(s)] = " " THEN Trimmed(SubSeq(s, 1, Len(s) - 1))
    ELSE s

\* the trimmed lines that are not empty, in order
RECURSIVE TrimmedLines(_)
TrimmedLines(ps) ==
    IF ps = <<>> THEN <<>>
    ELSE IF Trimmed(Head(ps)) = <<>> THEN TrimmedLines(Tail(ps))
    ELSE <<Trimmed(Head(ps))>> \o TrimmedLines(Tail(ps))

LineOr(L, k) == IF k <= Len(L) THEN L[k] ELSE <<>>

\* C11: with L the trimmed non-empty lines of the card text, title is L[0],
\* location L[1] and team L[2] of the claim's numbering, each the empty
\* string when the line is absent; lines after the third are ignored.
C11_Extraction ==
    x_pc = "done" =>
        LET L == TrimmedLines(PiecesOf(x_card.text)) IN
        /\ x_rec.title = LineOr(L, 1)
        /\ x_rec.location = LineOr(L, 2)
        /\ x_rec.team = LineOr(L, 3)

\* C11 witness: a card of four lines was extracted, the fourth line ignored.
C11_Witness ==
    /\ x_pc = "done"
    /\ x_card.text = <<"A", NL, "B", NL, "A", NL, "B">>
    /\ x_rec.title = <<"A">>
    /\ x_rec.location = <<"B">>
    /\ x_rec.team = <<"A">>

-----------------------------------------------------------------------------
(* Properties of the discrete-pagination session *)

\* the step on which the bounded wait expires ends the loop and drops nothing
StallStep ==
    (pg_pc = "advance" /\ pg_stop' = "stalled") =>
        /\ pg_pc' = "stop"
        /\ pg_results' = pg_results
        /\ pg_pages' = pg_pages

\* a stalled session returns what the visited pages gave, by a normal return
StallReturn ==
    pg_stop = "stalled" =>
        /\ pg_pc \in {"stop", "returned"}
        /\ pg_pc = "returned" =>
              /\ pg_returned = pg_results
              /\ pg_pages = 1 => pg_returned = pg_page1

\* C12: when the next control was activated and the first element's
\* identifier did not change within the timeout, the loop stops and the
\* session returns the results of the pages visited so far (those of page 1
\* when the stall follows page 1); it does not loop on and does not raise.
C12_PaginationStall ==
    /\ [][StallStep]_vars
    /\ []StallReturn
    /\ (pg_stop = "stalled") ~> (pg_pc = "returned")

\* C12 witness: the navigation stalled after page 1 gave two records, and both
\* were returned.
C12_Witness ==
    /\ pg_pc = "returned"
    /\ pg_stop = "stalled"
    /\ pg_pages = 1
    /\ Len(pg_returned) = 2
    /\ pg_cfg.max_pages = 2

-----------------------------------------------------------------------------
(* Properties of two calls on one connector *)

\* the collection loop is entered with fresh locals, whatever an earlier call left
StartsEmpty ==
    (pc = "cookie" /\ pc' = "while") =>
        /\ results' = <<>>
        /\ seen_urls' = {}
        /\ stagnant_rounds' = 0
        /\ last_count' = 0

\* the second call returned what the first one returned
SameAsFirst ==
    (s_calls = 2 /\ s_first.done /\ pc = "returned") => returned = s_first.value

\* C15: every scrape call starts with an empty results list, an empty seen-set
\* and zero counters; so a second fetch of the same connector against the same
\* page behaviour returns the sequence the first one returned: nothing seen in
\* the first session is filtered out of, or carried into, the second.
C15_SessionLocal == [][StartsEmpty]_vars /\ []SameAsFirst

\* C15 witness: both calls returned the same two records.
C15_Witness ==
    /\ s_calls = 2
    /\ s_first.done
    /\ pc = "returned"
    /\ Len(returned) = 2
    /\ returned = s_first.value

-----------------------------------------------------------------------------
(* Properties of call_connectors *)

\* call_connectors is over and no fetch() raised
DriverOver == d_pc \in {"done", "raised"} /\ d_exc # "fetch"

\* C17: call_connectors invokes fetch() on every connector of get_connectors,
\* once each and in registry order, and consumes every record each connector
\* returned, whatever records they return.
C17_DriverConsumesAll ==
    /\ IsPrefix(d_fetched, [i \in 1..Len(get_connectors) |-> get_connectors[i].board_token])
    /\ DriverOver =>
          /\ Len(d_fetched) = Len(get_connectors)
          /\ d_consumed = d_produced

=============================================================================
